---- MODULE Spec2Model ----
(***************************************************************************)
(* Result cache and refresh-coalescing scheduler of OC Bus Tracker.        *)
(*                                                                         *)
(* The model follows the cached server variant (src/unnamed/part_000):     *)
(* the entry store (cache), the single-flight map (pendingByBlock), the    *)
(* bounded-concurrency job queue (queue, activeWorkers) and the            *)
(* deadline-bound responder (getFastResult).                               *)
(*                                                                         *)
(* Granularity: Node runs one macrotask (an HTTP request, a timer, the     *)
(* completion callback of the tracker process) and then every promise      *)
(* reaction it made runnable, before the next macrotask.  One action of    *)
(* the model is one macrotask together with its promise reactions.         *)
(***************************************************************************)
EXTENDS Integers, Sequences, FiniteSets, TLC

\* ------------------------------------------------------------------ bounds
MaxTime == 2            \* the clock runs over 0..MaxTime
MaxJobs == 3            \* promise identities: refresh jobs alive at once
MaxWaiters == 2         \* lookups suspended on the deadline race at once
ClockSkew == 1          \* ms the clock may advance between two nowMs() reads

\* ------------------------------------------------- configuration defaults
\* Durations are scaled to clock ticks, keeping
\* MAX_SYNC_WAIT_MS <= CACHE_TTL_MS < STALE_TTL_MS.
DefaultCacheTtl == 1
DefaultStaleTtl == 2
DefaultMaxSyncWait == 1
\* TRACK_CONCURRENCY = Math.max(1, ...): configured in 1..DefaultConcurrency
DefaultConcurrency == 2
RetryAfterMs == 1200

Blocks == {"44-07", "44-08", "5-12"}
Payloads == {"busA", "busB"}
\* failures of runTrackProcess: exit code 2 (block not found), any other
\* (a crash, unparsable output, the RUN_TIMEOUT_MS kill of the process)
Errors == {"code2", "failed"}

NoEntry == [payload |-> "none", updatedAt |-> -1, freshUntil |-> -1, staleUntil |-> -1]
NoHandle == 0

VARIABLES
    CACHE_TTL_MS, STALE_TTL_MS, MAX_SYNC_WAIT_MS, TRACK_CONCURRENCY,
    requested,        \* the blocks the clients ask about
    available,        \* server.js: the block list published for the service date
    cache,            \* block -> entry or NoEntry
    pendingByBlock,   \* block -> id of the live refresh promise, or NoHandle
    queue,            \* sequence of queued jobs [block, id]
    activeWorkers,    \* number of jobs started and not settled
    running,          \* the jobs started and not settled
    waiters,          \* getFastResult calls suspended in Promise.race
    now,              \* Date.now()
    last,             \* what the last step did and answered
    answeredPending,  \* history: live promises some lookup answered pending on
    noted,            \* history: block -> the entry stored by a refresh that
                      \*   had answered pending ("warmed"), or the entry that
                      \*   was live when a refresh of the block failed
                      \*   ("kept"), until that entry's staleUntil
    refreshed,        \* history: blocks whose entry a background refresh
                      \*   replaced and no lookup has read since
    fallbacks         \* server.js: trackBlock fallback runs in progress

config == <<CACHE_TTL_MS, STALE_TTL_MS, MAX_SYNC_WAIT_MS, TRACK_CONCURRENCY, requested,
            available>>
vars == <<CACHE_TTL_MS, STALE_TTL_MS, MAX_SYNC_WAIT_MS, TRACK_CONCURRENCY, requested,
          available,
          cache, pendingByBlock, queue, activeWorkers, running, waiters,
          now, last, answeredPending, noted, refreshed, fallbacks>>

\* ---------------------------------------------------------------- answers
NoAnswer ==
    [status |-> "none", payload |-> "none", cached |-> FALSE, stale |-> FALSE,
     ageMs |-> 0, retryAfterMs |-> 0, error |-> "none", pending |-> FALSE]

Ready(p, c, s, age) ==
    [NoAnswer EXCEPT !.status = "ready", !.payload = p, !.cached = c,
                     !.stale = s, !.ageMs = age]

Pending == [NoAnswer EXCEPT !.status = "pending", !.retryAfterMs = RetryAfterMs]

Failure(e) == [NoAnswer EXCEPT !.status = "error", !.error = e]

NotFound(isPending) == [NoAnswer EXCEPT !.status = "notfound", !.pending = isPending]

Waiting == [NoAnswer EXCEPT !.status = "waiting"]

NoHealth == [queueDepth |-> -1, activeWorkers |-> -1, pendingBlocks |-> -1, cacheSize |-> -1]

Event(op, block, id, state, resp) ==
    [op |-> op, block |-> block, id |-> id, state |-> state, resp |-> resp,
     served |-> 0, submitted |-> FALSE, afterPending |-> FALSE, evicted |-> FALSE,
     afterRefresh |-> (op = "lookup" /\ block \in refreshed),
     health |-> NoHealth]

\* ------------------------------------------------------------ entry store
\* variant: the two comparisons include the boundary instant
getCacheStateInclusive(c, block, t) ==
    LET entry == c[block] IN
    IF entry = NoEntry THEN [state |-> "none", entry |-> NoEntry, cache |-> c]
    ELSE IF entry.freshUntil >= t THEN [state |-> "fresh", entry |-> entry, cache |-> c]
    ELSE IF entry.staleUntil >= t THEN [state |-> "stale", entry |-> entry, cache |-> c]
    ELSE [state |-> "none", entry |-> NoEntry, cache |-> [c EXCEPT ![block] = NoEntry]]

\* variant: an entry is removed as soon as it is no longer fresh
getCacheStateEvictsAtFresh(c, block, t) ==
    LET entry == c[block] IN
    IF entry = NoEntry THEN [state |-> "none", entry |-> NoEntry, cache |-> c]
    ELSE IF entry.freshUntil > t THEN [state |-> "fresh", entry |-> entry, cache |-> c]
    ELSE [state |-> "none", entry |-> NoEntry, cache |-> [c EXCEPT ![block] = NoEntry]]

\* getCacheState(block) at time t: the classification, the entry, and the
\* cache after the lazy eviction.
getCacheState(c, block, t) ==
    LET entry == c[block] IN
    IF entry = NoEntry THEN [state |-> "none", entry |-> NoEntry, cache |-> c]
    ELSE IF entry.freshUntil > t THEN [state |-> "fresh", entry |-> entry, cache |-> c]
    ELSE IF entry.staleUntil > t THEN [state |-> "stale", entry |-> entry, cache |-> c]
    ELSE [state |-> "none", entry |-> NoEntry, cache |-> [c EXCEPT ![block] = NoEntry]]

\* variant: the two windows are exchanged
setCacheSwapsTtl(c, block, payload, t) ==
    [c EXCEPT ![block] = [payload |-> payload, updatedAt |-> t,
                          freshUntil |-> t + STALE_TTL_MS,
                          staleUntil |-> t + CACHE_TTL_MS]]

\* variant: an existing entry keeps its window, only the payload is replaced
setCacheKeepsWindow(c, block, payload, t) ==
    IF c[block] # NoEntry
    THEN [c EXCEPT ![block].payload = payload]
    ELSE [c EXCEPT ![block] = [payload |-> payload, updatedAt |-> t,
                               freshUntil |-> t + CACHE_TTL_MS,
                               staleUntil |-> t + STALE_TTL_MS]]

setCache(c, block, payload, t) ==
    [c EXCEPT ![block] = [payload |-> payload, updatedAt |-> t,
                          freshUntil |-> t + CACHE_TTL_MS,
                          staleUntil |-> t + STALE_TTL_MS]]

\* -------------------------------------------------------------- job queue
\* The scheduler state is the record [queue, activeWorkers, running].

\* variant: the loop test admits one job more than the limit
RECURSIVE drainQueueOffByOne(_)
drainQueueOffByOne(s) ==
    IF s.activeWorkers <= TRACK_CONCURRENCY /\ Len(s.queue) > 0
    THEN drainQueueOffByOne([queue |-> Tail(s.queue),
                             activeWorkers |-> s.activeWorkers + 1,
                             running |-> s.running \cup {Head(s.queue)}])
    ELSE s

\* variant: the loop takes the job submitted last (queue.pop())
RECURSIVE drainQueueFromTail(_)
drainQueueFromTail(s) ==
    IF s.activeWorkers < TRACK_CONCURRENCY /\ Len(s.queue) > 0
    THEN drainQueueFromTail([queue |-> SubSeq(s.queue, 1, Len(s.queue) - 1),
                             activeWorkers |-> s.activeWorkers + 1,
                             running |-> s.running \cup {s.queue[Len(s.queue)]}])
    ELSE s

\* variant: the loop keeps one slot free
RECURSIVE drainQueueReservesSlot(_)
drainQueueReservesSlot(s) ==
    IF s.activeWorkers + 1 < TRACK_CONCURRENCY /\ Len(s.queue) > 0
    THEN drainQueueReservesSlot([queue |-> Tail(s.queue),
                                 activeWorkers |-> s.activeWorkers + 1,
                                 running |-> s.running \cup {Head(s.queue)}])
    ELSE s

\* variant: the loop starts the head job and leaves it in the queue
RECURSIVE drainQueueKeepsHead(_)
drainQueueKeepsHead(s) ==
    IF s.activeWorkers < TRACK_CONCURRENCY /\ Len(s.queue) > 0
    THEN drainQueueKeepsHead([queue |-> s.queue,
                              activeWorkers |-> s.activeWorkers + 1,
                              running |-> s.running \cup {Head(s.queue)}])
    ELSE s

RECURSIVE drainQueue(_)
drainQueue(s) ==
    IF s.activeWorkers < TRACK_CONCURRENCY /\ Len(s.queue) > 0
    THEN drainQueue([queue |-> Tail(s.queue),
                     activeWorkers |-> s.activeWorkers + 1,
                     running |-> s.running \cup {Head(s.queue)}])
    ELSE s

enqueue(s, job) ==
    drainQueue([s EXCEPT !.queue = Append(s.queue, job)])

\* a note is dropped once its entry's staleUntil has passed
NoNote == [why |-> "none", entry |-> NoEntry]
Unexpired(n, t) ==
    [b \in Blocks |-> IF n[b].entry.staleUntil > t THEN n[b] ELSE NoNote]

Sched == [queue |-> queue, activeWorkers |-> activeWorkers, running |-> running]

\* variant: the completion handler decrements the count without draining
jobFinallyNoDrain(s, job) ==
    [s EXCEPT !.activeWorkers = s.activeWorkers - 1,
              !.running = s.running \ {job}]

\* the completion of a started job: .finally(() => { activeWorkers -= 1; drainQueue(); })
jobFinally(s, job) ==
    drainQueue([s EXCEPT !.activeWorkers = s.activeWorkers - 1,
                         !.running = s.running \ {job}])

\* ------------------------------------------------------ refresh coalescer
\* ensureRefresh(block): the promise returned, the handle map and the
\* scheduler after the call, and whether a job was submitted.
\* variant: the live handle is not consulted, every call submits a job
ensureRefreshAlwaysSubmits(pend, s, block, id) ==
    [promise |-> id,
     pending |-> [pend EXCEPT ![block] = id],
     sched |-> enqueue(s, [block |-> block, id |-> id]),
     submitted |-> TRUE]

\* variant: the new promise is not registered in pendingByBlock
ensureRefreshNotRegistered(pend, s, block, id) ==
    IF pend[block] # NoHandle
    THEN [promise |-> pend[block], pending |-> pend, sched |-> s, submitted |-> FALSE]
    ELSE [promise |-> id,
          pending |-> pend,
          sched |-> enqueue(s, [block |-> block, id |-> id]),
          submitted |-> TRUE]

\* variant: the handle of a refresh that has started is not reused
ensureRefreshOverlaps(pend, s, block, id) ==
    IF pend[block] # NoHandle /\ ~ \E j \in s.running : j.block = block
    THEN [promise |-> pend[block], pending |-> pend, sched |-> s, submitted |-> FALSE]
    ELSE [promise |-> id,
          pending |-> [pend EXCEPT ![block] = id],
          sched |-> enqueue(s, [block |-> block, id |-> id]),
          submitted |-> TRUE]

\* variant: the promise is registered only when its job has to wait
ensureRefreshRegistersQueued(pend, s, block, id) ==
    IF pend[block] # NoHandle
    THEN [promise |-> pend[block], pending |-> pend, sched |-> s, submitted |-> FALSE]
    ELSE LET t == enqueue(s, [block |-> block, id |-> id]) IN
         [promise |-> id,
          pending |-> IF Len(t.queue) > Len(s.queue)
                      THEN [pend EXCEPT ![block] = id] ELSE pend,
          sched |-> t,
          submitted |-> TRUE]

ensureRefresh(pend, s, block, id) ==
    IF pend[block] # NoHandle
    THEN [promise |-> pend[block], pending |-> pend, sched |-> s, submitted |-> FALSE]
    ELSE [promise |-> id,
          pending |-> [pend EXCEPT ![block] = id],
          sched |-> enqueue(s, [block |-> block, id |-> id]),
          submitted |-> TRUE]

\* ------------------------------------------------------------------- jobs
Queued == {queue[i] : i \in 1..Len(queue)}
Jobs == Queued \cup running
JobsFor(b) == {j \in Jobs : j.block = b}

\* The identity of the promise the next ensureRefresh creates: one that no
\* live promise has (no job, no handle, no suspended call refers to it).
nextId ==
    LET used == {j.id : j \in Jobs} \cup {pendingByBlock[b] : b \in DOMAIN pendingByBlock}
                   \cup {w.promise : w \in waiters}
    IN CHOOSE i \in 1..(MaxJobs + 1) :
          /\ i \notin used
          /\ \A k \in 1..(i - 1) : k \in used

\* ------------------------------------------------------------------- Init
Init ==
    /\ CACHE_TTL_MS = DefaultCacheTtl
    /\ STALE_TTL_MS = DefaultStaleTtl
    /\ MAX_SYNC_WAIT_MS = DefaultMaxSyncWait
    /\ TRACK_CONCURRENCY \in 1..DefaultConcurrency
    /\ requested = {"44-07", "44-08"}
    /\ available = <<>>
    /\ cache = [b \in Blocks |-> NoEntry]
    /\ pendingByBlock = [b \in Blocks |-> NoHandle]
    /\ queue = <<>>
    /\ activeWorkers = 0
    /\ running = {}
    /\ waiters = {}
    /\ now = 0
    /\ last = Event("init", "none", 0, "none", NoAnswer)
    /\ answeredPending = {}
    /\ noted = [b \in Blocks |-> NoNote]
    /\ refreshed = {}
    /\ fallbacks = 0

\* ---------------------------------------------------------------- actions
\* waiters holds one record per (block, promise, deadline) with the number
\* of suspended calls that share them.
Suspended(ws) ==
    LET RECURSIVE Sum(_)
        Sum(S) == IF S = {} THEN 0
                  ELSE LET w == CHOOSE x \in S : TRUE IN w.callers + Sum(S \ {w})
    IN Sum(ws)

Suspend(ws, block, promise, deadline) ==
    LET same == {w \in ws : w.block = block /\ w.promise = promise /\ w.deadline = deadline}
        n == Suspended(same)
    IN (ws \ same) \cup {[block |-> block, promise |-> promise, deadline |-> deadline,
                          callers |-> n + 1]}

Resume(ws, w) ==
    (ws \ {w}) \cup (IF w.callers > 1 THEN {[w EXCEPT !.callers = w.callers - 1]} ELSE {})

\* The three branches of getFastResult(block).  cs is what getCacheState
\* returned, er what ensureRefresh would do, d the time the clock advances
\* between getCacheState's nowMs() and the nowMs() of ageMs.

\* variant: a fresh hit also starts a refresh
FreshPathRefreshes(block, d, cs, er) ==
    /\ er.submitted => nextId <= MaxJobs
    /\ pendingByBlock' = er.pending
    /\ queue' = er.sched.queue
    /\ activeWorkers' = er.sched.activeWorkers
    /\ running' = er.sched.running
    /\ last' = [Event("lookup", block, 0, "fresh",
                      Ready(cs.entry.payload, TRUE, FALSE, (now + d) - cs.entry.updatedAt))
                   EXCEPT !.submitted = er.submitted]
    /\ UNCHANGED waiters

FreshPath(block, d, cs, er) ==
    /\ last' = Event("lookup", block, 0, "fresh",
                     Ready(cs.entry.payload, TRUE, FALSE, (now + d) - cs.entry.updatedAt))
    /\ UNCHANGED <<pendingByBlock, queue, activeWorkers, running, waiters>>

\* variant: the background refresh is enqueued directly, past the handle map
StalePathEnqueues(block, d, cs, er) ==
    LET s == enqueue(Sched, [block |-> block, id |-> nextId]) IN
    /\ nextId <= MaxJobs
    /\ pendingByBlock' = [pendingByBlock EXCEPT ![block] = nextId]
    /\ queue' = s.queue
    /\ activeWorkers' = s.activeWorkers
    /\ running' = s.running
    /\ last' = [Event("lookup", block, nextId, "stale",
                      Ready(cs.entry.payload, TRUE, TRUE, (now + d) - cs.entry.updatedAt))
                   EXCEPT !.submitted = TRUE]
    /\ UNCHANGED waiters

StalePath(block, d, cs, er) ==
    /\ er.submitted => nextId <= MaxJobs
    /\ pendingByBlock' = er.pending
    /\ queue' = er.sched.queue
    /\ activeWorkers' = er.sched.activeWorkers
    /\ running' = er.sched.running
    /\ last' = [Event("lookup", block, er.promise, "stale",
                      Ready(cs.entry.payload, TRUE, TRUE, (now + d) - cs.entry.updatedAt))
                   EXCEPT !.submitted = er.submitted]
    /\ UNCHANGED waiters

\* the call suspends in Promise.race; it is answered by Settle or TimerFire.
\* A call is followed only when its deadline lies within the clock's range.
NonePath(block, d, cs, er) ==
    /\ d = 0
    /\ now + MAX_SYNC_WAIT_MS <= MaxTime
    /\ er.submitted => nextId <= MaxJobs
    /\ Suspended(waiters) < MaxWaiters
    /\ pendingByBlock' = er.pending
    /\ queue' = er.sched.queue
    /\ activeWorkers' = er.sched.activeWorkers
    /\ running' = er.sched.running
    /\ waiters' = Suspend(waiters, block, er.promise, now + MAX_SYNC_WAIT_MS)
    /\ last' = [Event("lookup", block, er.promise, "none", Waiting)
                   EXCEPT !.submitted = er.submitted, !.evicted = (cs.cache # cache)]

getFastResult(block, d) ==
    LET cs == getCacheState(cache, block, now)
        er == ensureRefresh(pendingByBlock, Sched, block, nextId)
    IN
    /\ now + d <= MaxTime
    /\ now' = now + d
    /\ cache' = cs.cache
    /\ noted' = Unexpired(noted, now + d)
    /\ refreshed' = refreshed \ {block}
    /\ UNCHANGED <<config, answeredPending, fallbacks>>
    /\ IF cs.state = "fresh" THEN FreshPath(block, d, cs, er)
       ELSE IF cs.state = "stale" THEN StalePath(block, d, cs, er)
       ELSE NonePath(block, d, cs, er)

Lookup == \E block \in requested, d \in 0..ClockSkew : getFastResult(block, d)

\* variant: the deadline drops the handle of the refresh it stopped waiting for
TimerFireCancels ==
    \E w \in waiters :
        /\ now >= w.deadline
        /\ waiters' = Resume(waiters, w)
        /\ answeredPending' = answeredPending \cup {w.promise}
        /\ pendingByBlock' = [pendingByBlock EXCEPT ![w.block] = NoHandle]
        /\ last' = [Event("timer", w.block, w.promise, "none", Pending) EXCEPT !.served = 1]
        /\ UNCHANGED <<config, cache, queue, activeWorkers, running, now, noted,
                       refreshed, fallbacks>>

\* variant: the timer answers only once the refresh is no longer in flight
TimerFireAfterRefresh ==
    \E w \in waiters :
        /\ now >= w.deadline
        /\ pendingByBlock[w.block] = NoHandle
        /\ waiters' = Resume(waiters, w)
        /\ answeredPending' = answeredPending \cup {w.promise}
        /\ last' = [Event("timer", w.block, w.promise, "none", Pending) EXCEPT !.served = 1]
        /\ UNCHANGED <<config, cache, pendingByBlock, queue, activeWorkers, running,
                       now, noted, refreshed, fallbacks>>

\* The deadline timer of a suspended lookup fires first: it answers pending.
TimerFire ==
    \E w \in waiters :
        /\ now >= w.deadline
        /\ waiters' = Resume(waiters, w)
        /\ answeredPending' = answeredPending \cup {w.promise}
        /\ last' = [Event("timer", w.block, w.promise, "none", Pending) EXCEPT !.served = 1]
        /\ UNCHANGED <<config, cache, pendingByBlock, queue, activeWorkers, running,
                       now, noted, refreshed, fallbacks>>

\* variant: setCache runs in the finally handler, whatever the outcome
SettleStoresAlways(job, ok, payload, error) ==
    LET s == jobFinally(Sched, job)
        resumed == {w \in waiters : w.promise = job.id}
        answer == IF ok THEN Ready(payload, FALSE, FALSE, 0) ELSE Failure(error)
        entryLive == cache[job.block] # NoEntry /\ cache[job.block].staleUntil > now
    IN
    /\ cache' = setCache(cache, job.block, payload, now)
    /\ queue' = s.queue
    /\ activeWorkers' = s.activeWorkers
    /\ running' = s.running
    /\ pendingByBlock' = [pendingByBlock EXCEPT ![job.block] = NoHandle]
    /\ waiters' = waiters \ resumed
    /\ last' = [Event("settle", job.block, job.id, IF ok THEN "ok" ELSE "failed", answer)
                   EXCEPT !.served = Suspended(resumed),
                          !.afterPending = (job.id \in answeredPending)]
    /\ answeredPending' = answeredPending \ {job.id}
    /\ noted' = IF ok /\ job.id \in answeredPending
                THEN Unexpired([noted EXCEPT ![job.block] =
                                   [why |-> "warmed", entry |-> cache'[job.block]]], now)
                ELSE IF ~ok /\ entryLive
                THEN [noted EXCEPT ![job.block] = [why |-> "kept", entry |-> cache[job.block]]]
                ELSE noted
    /\ refreshed' = IF ok /\ cache[job.block] # NoEntry
                    THEN refreshed \cup {job.block} ELSE refreshed
    /\ UNCHANGED <<config, now, fallbacks>>

\* variant: a failed refresh invalidates the entry of its block
SettleEvictsOnFailure(job, ok, payload, error) ==
    LET s == jobFinally(Sched, job)
        resumed == {w \in waiters : w.promise = job.id}
        answer == IF ok THEN Ready(payload, FALSE, FALSE, 0) ELSE Failure(error)
        entryLive == cache[job.block] # NoEntry /\ cache[job.block].staleUntil > now
    IN
    /\ cache' = IF ok THEN setCache(cache, job.block, payload, now)
                ELSE [cache EXCEPT ![job.block] = NoEntry]
    /\ queue' = s.queue
    /\ activeWorkers' = s.activeWorkers
    /\ running' = s.running
    /\ pendingByBlock' = [pendingByBlock EXCEPT ![job.block] = NoHandle]
    /\ waiters' = waiters \ resumed
    /\ last' = [Event("settle", job.block, job.id, IF ok THEN "ok" ELSE "failed", answer)
                   EXCEPT !.served = Suspended(resumed),
                          !.afterPending = (job.id \in answeredPending)]
    /\ answeredPending' = answeredPending \ {job.id}
    /\ noted' = IF ok /\ job.id \in answeredPending
                THEN Unexpired([noted EXCEPT ![job.block] =
                                   [why |-> "warmed", entry |-> cache'[job.block]]], now)
                ELSE IF ~ok /\ entryLive
                THEN [noted EXCEPT ![job.block] = [why |-> "kept", entry |-> cache[job.block]]]
                ELSE noted
    /\ refreshed' = IF ok /\ cache[job.block] # NoEntry
                    THEN refreshed \cup {job.block} ELSE refreshed
    /\ UNCHANGED <<config, now, fallbacks>>

\* variant: the race maps a rejected refresh to { done: false }
SettleSwallowsFailure(job, ok, payload, error) ==
    LET s == jobFinally(Sched, job)
        resumed == {w \in waiters : w.promise = job.id}
        answer == IF ok THEN Ready(payload, FALSE, FALSE, 0) ELSE Pending
        entryLive == cache[job.block] # NoEntry /\ cache[job.block].staleUntil > now
    IN
    /\ cache' = IF ok THEN setCache(cache, job.block, payload, now) ELSE cache
    /\ queue' = s.queue
    /\ activeWorkers' = s.activeWorkers
    /\ running' = s.running
    /\ pendingByBlock' = [pendingByBlock EXCEPT ![job.block] = NoHandle]
    /\ waiters' = waiters \ resumed
    /\ last' = [Event("settle", job.block, job.id, IF ok THEN "ok" ELSE "failed", answer)
                   EXCEPT !.served = Suspended(resumed),
                          !.afterPending = (job.id \in answeredPending)]
    /\ answeredPending' = answeredPending \ {job.id}
    /\ noted' = IF ok /\ job.id \in answeredPending
                THEN Unexpired([noted EXCEPT ![job.block] =
                                   [why |-> "warmed", entry |-> cache'[job.block]]], now)
                ELSE IF ~ok /\ entryLive
                THEN [noted EXCEPT ![job.block] = [why |-> "kept", entry |-> cache[job.block]]]
                ELSE noted
    /\ refreshed' = IF ok /\ cache[job.block] # NoEntry
                    THEN refreshed \cup {job.block} ELSE refreshed
    /\ UNCHANGED <<config, now, fallbacks>>

\* variant: the handle is deleted in .then, on success only
SettleKeepsHandleOnFailure(job, ok, payload, error) ==
    LET s == jobFinally(Sched, job)
        resumed == {w \in waiters : w.promise = job.id}
        answer == IF ok THEN Ready(payload, FALSE, FALSE, 0) ELSE Failure(error)
        entryLive == cache[job.block] # NoEntry /\ cache[job.block].staleUntil > now
    IN
    /\ cache' = IF ok THEN setCache(cache, job.block, payload, now) ELSE cache
    /\ queue' = s.queue
    /\ activeWorkers' = s.activeWorkers
    /\ running' = s.running
    /\ pendingByBlock' = IF ok THEN [pendingByBlock EXCEPT ![job.block] = NoHandle]
                       ELSE pendingByBlock
    /\ waiters' = waiters \ resumed
    /\ last' = [Event("settle", job.block, job.id, IF ok THEN "ok" ELSE "failed", answer)
                   EXCEPT !.served = Suspended(resumed),
                          !.afterPending = (job.id \in answeredPending)]
    /\ answeredPending' = answeredPending \ {job.id}
    /\ noted' = IF ok /\ job.id \in answeredPending
                THEN Unexpired([noted EXCEPT ![job.block] =
                                   [why |-> "warmed", entry |-> cache'[job.block]]], now)
                ELSE IF ~ok /\ entryLive
                THEN [noted EXCEPT ![job.block] = [why |-> "kept", entry |-> cache[job.block]]]
                ELSE noted
    /\ refreshed' = IF ok /\ cache[job.block] # NoEntry
                    THEN refreshed \cup {job.block} ELSE refreshed
    /\ UNCHANGED <<config, now, fallbacks>>

\* variant: the refresh resolves without the setCache reaction
SettleWithoutStore(job, ok, payload, error) ==
    LET s == jobFinally(Sched, job)
        resumed == {w \in waiters : w.promise = job.id}
        answer == IF ok THEN Ready(payload, FALSE, FALSE, 0) ELSE Failure(error)
        entryLive == cache[job.block] # NoEntry /\ cache[job.block].staleUntil > now
    IN
    /\ cache' = cache
    /\ queue' = s.queue
    /\ activeWorkers' = s.activeWorkers
    /\ running' = s.running
    /\ pendingByBlock' = [pendingByBlock EXCEPT ![job.block] = NoHandle]
    /\ waiters' = waiters \ resumed
    /\ last' = [Event("settle", job.block, job.id, IF ok THEN "ok" ELSE "failed", answer)
                   EXCEPT !.served = Suspended(resumed),
                          !.afterPending = (job.id \in answeredPending)]
    /\ answeredPending' = answeredPending \ {job.id}
    /\ noted' = IF ok /\ job.id \in answeredPending
                THEN Unexpired([noted EXCEPT ![job.block] =
                                   [why |-> "warmed", entry |-> cache'[job.block]]], now)
                ELSE IF ~ok /\ entryLive
                THEN [noted EXCEPT ![job.block] = [why |-> "kept", entry |-> cache[job.block]]]
                ELSE noted
    /\ refreshed' = IF ok /\ cache[job.block] # NoEntry
                    THEN refreshed \cup {job.block} ELSE refreshed
    /\ UNCHANGED <<config, now, fallbacks>>

\* variant: the finally reaction clears the whole handle map
SettleClearsHandles(job, ok, payload, error) ==
    LET s == jobFinally(Sched, job)
        resumed == {w \in waiters : w.promise = job.id}
        answer == IF ok THEN Ready(payload, FALSE, FALSE, 0) ELSE Failure(error)
        entryLive == cache[job.block] # NoEntry /\ cache[job.block].staleUntil > now
    IN
    /\ cache' = IF ok THEN setCache(cache, job.block, payload, now) ELSE cache
    /\ queue' = s.queue
    /\ activeWorkers' = s.activeWorkers
    /\ running' = s.running
    /\ pendingByBlock' = [b \in Blocks |-> NoHandle]
    /\ waiters' = waiters \ resumed
    /\ last' = [Event("settle", job.block, job.id, IF ok THEN "ok" ELSE "failed", answer)
                   EXCEPT !.served = Suspended(resumed),
                          !.afterPending = (job.id \in answeredPending)]
    /\ answeredPending' = answeredPending \ {job.id}
    /\ noted' = IF ok /\ job.id \in answeredPending
                THEN Unexpired([noted EXCEPT ![job.block] =
                                   [why |-> "warmed", entry |-> cache'[job.block]]], now)
                ELSE IF ~ok /\ entryLive
                THEN [noted EXCEPT ![job.block] = [why |-> "kept", entry |-> cache[job.block]]]
                ELSE noted
    /\ refreshed' = IF ok /\ cache[job.block] # NoEntry
                    THEN refreshed \cup {job.block} ELSE refreshed
    /\ UNCHANGED <<config, now, fallbacks>>

\* A started tracker process completes.  The reactions, in promise-job order:
\* next.resolve/next.reject; setCache on success; activeWorkers -= 1 and
\* drainQueue(); pendingByBlock.delete(block); the suspended lookups resume.
Settle(job, ok, payload, error) ==
    LET s == jobFinally(Sched, job)
        resumed == {w \in waiters : w.promise = job.id}
        answer == IF ok THEN Ready(payload, FALSE, FALSE, 0) ELSE Failure(error)
        entryLive == cache[job.block] # NoEntry /\ cache[job.block].staleUntil > now
    IN
    /\ cache' = IF ok THEN setCache(cache, job.block, payload, now) ELSE cache
    /\ queue' = s.queue
    /\ activeWorkers' = s.activeWorkers
    /\ running' = s.running
    /\ pendingByBlock' = [pendingByBlock EXCEPT ![job.block] = NoHandle]
    /\ waiters' = waiters \ resumed
    /\ last' = [Event("settle", job.block, job.id, IF ok THEN "ok" ELSE "failed", answer)
                   EXCEPT !.served = Suspended(resumed),
                          !.afterPending = (job.id \in answeredPending)]
    /\ answeredPending' = answeredPending \ {job.id}
    /\ noted' = IF ok /\ job.id \in answeredPending
                THEN Unexpired([noted EXCEPT ![job.block] =
                                   [why |-> "warmed", entry |-> cache'[job.block]]], now)
                ELSE IF ~ok /\ entryLive
                THEN [noted EXCEPT ![job.block] = [why |-> "kept", entry |-> cache[job.block]]]
                ELSE noted
    /\ refreshed' = IF ok /\ cache[job.block] # NoEntry
                    THEN refreshed \cup {job.block} ELSE refreshed
    /\ UNCHANGED <<config, now, fallbacks>>

JobSucceeds == \E job \in running, p \in Payloads : Settle(job, TRUE, p, "none")

JobFails == \E job \in running, e \in Errors : Settle(job, FALSE, "none", e)

\* variant: a poll that finds no entry starts the refresh itself
PollRefreshes ==
    \E block \in requested, d \in 0..ClockSkew :
        LET cs == getCacheState(cache, block, now)
            er == IF cs.state = "none"
                  THEN ensureRefresh(pendingByBlock, Sched, block, nextId)
                  ELSE [promise |-> 0, pending |-> pendingByBlock, sched |-> Sched,
                        submitted |-> FALSE]
        IN
        /\ now + d <= MaxTime
        /\ cs.state = "none" => d = 0
        /\ er.submitted => nextId <= MaxJobs
        /\ now' = now + d
        /\ cache' = cs.cache
        /\ noted' = Unexpired(noted, now + d)
        /\ pendingByBlock' = er.pending
        /\ queue' = er.sched.queue
        /\ activeWorkers' = er.sched.activeWorkers
        /\ running' = er.sched.running
        /\ last' = [Event("poll", block, 0, cs.state,
                          IF cs.state = "none"
                          THEN NotFound(pendingByBlock[block] # NoHandle)
                          ELSE Ready(cs.entry.payload, TRUE, cs.state = "stale",
                                     (now + d) - cs.entry.updatedAt))
                       EXCEPT !.evicted = (cs.cache # cache), !.submitted = er.submitted]
        /\ refreshed' = refreshed
        /\ UNCHANGED <<config, waiters, answeredPending, fallbacks>>

\* variant: a poll that finds no entry does not consult the handle map
PollPlainNotFound ==
    \E block \in requested, d \in 0..ClockSkew :
        LET cs == getCacheState(cache, block, now) IN
        /\ now + d <= MaxTime
        /\ cs.state = "none" => d = 0
        /\ now' = now + d
        /\ cache' = cs.cache
        /\ noted' = Unexpired(noted, now + d)
        /\ last' = [Event("poll", block, 0, cs.state,
                          IF cs.state = "none"
                          THEN NotFound(FALSE)
                          ELSE Ready(cs.entry.payload, TRUE, cs.state = "stale",
                                     (now + d) - cs.entry.updatedAt))
                       EXCEPT !.evicted = (cs.cache # cache)]
        /\ refreshed' = refreshed
        /\ UNCHANGED <<config, pendingByBlock, queue, activeWorkers, running, waiters,
                       answeredPending, fallbacks>>

\* GET /api/result
Poll ==
    \E block \in requested, d \in 0..ClockSkew :
        LET cs == getCacheState(cache, block, now) IN
        /\ now + d <= MaxTime
        /\ cs.state = "none" => d = 0
        /\ now' = now + d
        /\ cache' = cs.cache
        /\ noted' = Unexpired(noted, now + d)
        /\ last' = [Event("poll", block, 0, cs.state,
                          IF cs.state = "none"
                          THEN NotFound(pendingByBlock[block] # NoHandle)
                          ELSE Ready(cs.entry.payload, TRUE, cs.state = "stale",
                                     (now + d) - cs.entry.updatedAt))
                       EXCEPT !.evicted = (cs.cache # cache)]
        /\ refreshed' = refreshed
        /\ UNCHANGED <<config, pendingByBlock, queue, activeWorkers, running, waiters,
                       answeredPending, fallbacks>>

\* variant: the entry count classifies every block, evicting the expired ones
HealthEvicts ==
    LET live == {b \in Blocks : getCacheState(cache, b, now).state # "none"} IN
    /\ cache' = [b \in Blocks |-> IF b \in live THEN cache[b] ELSE NoEntry]
    /\ last' = [Event("health", "none", 0, "none", NoAnswer) EXCEPT !.health =
                   [queueDepth |-> Len(queue), activeWorkers |-> activeWorkers,
                    pendingBlocks |-> Cardinality({b \in Blocks : pendingByBlock[b] # NoHandle}),
                    cacheSize |-> Cardinality(live)]]
    /\ UNCHANGED <<config, pendingByBlock, queue, activeWorkers, running, waiters,
                   now, answeredPending, noted, refreshed, fallbacks>>

\* GET /healthz
Health ==
    /\ last' = [Event("health", "none", 0, "none", NoAnswer) EXCEPT !.health =
                   [queueDepth |-> Len(queue), activeWorkers |-> activeWorkers,
                    pendingBlocks |-> Cardinality({b \in Blocks : pendingByBlock[b] # NoHandle}),
                    cacheSize |-> Cardinality({b \in Blocks : cache[b] # NoEntry})]]
    /\ UNCHANGED <<config, cache, pendingByBlock, queue, activeWorkers, running, waiters,
                   now, answeredPending, noted, refreshed, fallbacks>>

\* Time passes.
Tick ==
    /\ now < MaxTime
    /\ now' = now + 1
    /\ noted' = Unexpired(noted, now + 1)
    /\ last' = Event("tick", "none", 0, "none", NoAnswer)
    /\ refreshed' = refreshed
    /\ UNCHANGED <<config, cache, pendingByBlock, queue, activeWorkers, running, waiters,
                   answeredPending, fallbacks>>

Next == Lookup \/ TimerFire \/ JobSucceeds \/ JobFails \/ Poll \/ Health \/ Tick

Spec == Init /\ [][Next]_vars

\* Every block is asked about and one job runs at a time, so that jobs of
\* two blocks can wait in the queue behind a third.  The server starts one
\* deadline before the end of the clock's range.
InitAllBlocks ==
    /\ CACHE_TTL_MS = DefaultCacheTtl
    /\ STALE_TTL_MS = DefaultStaleTtl
    /\ MAX_SYNC_WAIT_MS = DefaultMaxSyncWait
    /\ TRACK_CONCURRENCY = 1
    /\ requested = Blocks
    /\ available = <<>>
    /\ cache = [b \in Blocks |-> NoEntry]
    /\ pendingByBlock = [b \in Blocks |-> NoHandle]
    /\ queue = <<>>
    /\ activeWorkers = 0
    /\ running = {}
    /\ waiters = {}
    /\ now = MaxTime - DefaultMaxSyncWait
    /\ last = Event("init", "none", 0, "none", NoAnswer)
    /\ answeredPending = {}
    /\ noted = [b \in Blocks |-> NoNote]
    /\ refreshed = {}
    /\ fallbacks = 0

SpecAllBlocks == InitAllBlocks /\ [][Next]_vars

\* The server starts one deadline before the end of the clock's range.
InitLate ==
    /\ CACHE_TTL_MS = DefaultCacheTtl
    /\ STALE_TTL_MS = DefaultStaleTtl
    /\ MAX_SYNC_WAIT_MS = DefaultMaxSyncWait
    /\ TRACK_CONCURRENCY \in 1..DefaultConcurrency
    /\ requested = {"44-07", "44-08"}
    /\ available = <<>>
    /\ cache = [b \in Blocks |-> NoEntry]
    /\ pendingByBlock = [b \in Blocks |-> NoHandle]
    /\ queue = <<>>
    /\ activeWorkers = 0
    /\ running = {}
    /\ waiters = {}
    /\ now = MaxTime - DefaultMaxSyncWait
    /\ last = Event("init", "none", 0, "none", NoAnswer)
    /\ answeredPending = {}
    /\ noted = [b \in Blocks |-> NoNote]
    /\ refreshed = {}
    /\ fallbacks = 0

\* The event loop runs the callback of a timer that is due, and the clock
\* advances; nothing obliges a tracker process to complete.
FairSpec == InitLate /\ [][Next]_vars /\ WF_vars(TimerFire) /\ WF_vars(Tick)

\* ------------------------------------------------------------------------
\* A tracker process that hangs: the process started for StalledBlock never
\* completes, every other started process completes or is killed when its
\* execFile timeout expires.  The payload is opaque to the scheduler: the
\* processes that succeed print the same one.
StalledBlock == "44-07"

OtherJobSucceeds ==
    \E job \in running :
        job.block # StalledBlock /\ Settle(job, TRUE, "busA", "none")

OtherJobFails ==
    \E job \in running, e \in Errors :
        job.block # StalledBlock /\ Settle(job, FALSE, "none", e)

\* the started process of block b completes
Completes(b) ==
    \E job \in running :
        /\ job.block = b
        /\ \/ \E p \in Payloads : Settle(job, TRUE, p, "none")
           \/ \E e \in Errors : Settle(job, FALSE, "none", e)

NextStall ==
    Lookup \/ TimerFire \/ OtherJobSucceeds \/ OtherJobFails \/ Poll \/ Health \/ Tick

\* Every block is asked about; the server starts one deadline before the end
\* of the clock's range.
InitStall ==
    /\ CACHE_TTL_MS = DefaultCacheTtl
    /\ STALE_TTL_MS = DefaultStaleTtl
    /\ MAX_SYNC_WAIT_MS = DefaultMaxSyncWait
    /\ TRACK_CONCURRENCY \in 1..DefaultConcurrency
    /\ requested = Blocks
    /\ available = <<>>
    /\ cache = [b \in Blocks |-> NoEntry]
    /\ pendingByBlock = [b \in Blocks |-> NoHandle]
    /\ queue = <<>>
    /\ activeWorkers = 0
    /\ running = {}
    /\ waiters = {}
    /\ now = MaxTime - DefaultMaxSyncWait
    /\ last = Event("init", "none", 0, "none", NoAnswer)
    /\ answeredPending = {}
    /\ noted = [b \in Blocks |-> NoNote]
    /\ refreshed = {}
    /\ fallbacks = 0

SpecStall ==
    /\ InitStall
    /\ [][NextStall]_vars
    /\ \A b \in Blocks \ {StalledBlock} : WF_vars(Completes(b))

\* Every started tracker process completes or is killed when its execFile
\* timeout expires.
SpecJobsSettle ==
    /\ InitLate
    /\ [][Next]_vars
    /\ \A b \in Blocks : WF_vars(Completes(b))

\* ------------------------------------------------------------------------
\* The two windows as the environment may set them: CACHE_TTL_MS and
\* STALE_TTL_MS are read independently of each other, and neither is
\* compared with the other.
MaxTtl == 2

InitAnyTtl ==
    /\ CACHE_TTL_MS \in 1..MaxTtl
    /\ STALE_TTL_MS \in 1..MaxTtl
    /\ MAX_SYNC_WAIT_MS = DefaultMaxSyncWait
    /\ TRACK_CONCURRENCY \in 1..DefaultConcurrency
    /\ requested = {"44-07"}
    /\ available = <<>>
    /\ cache = [b \in Blocks |-> NoEntry]
    /\ pendingByBlock = [b \in Blocks |-> NoHandle]
    /\ queue = <<>>
    /\ activeWorkers = 0
    /\ running = {}
    /\ waiters = {}
    /\ now = 0
    /\ last = Event("init", "none", 0, "none", NoAnswer)
    /\ answeredPending = {}
    /\ noted = [b \in Blocks |-> NoNote]
    /\ refreshed = {}
    /\ fallbacks = 0

SpecAnyTtl == InitAnyTtl /\ [][Next]_vars

\* ========================================================================
\* The live-only server variant (src/server.js): no entry store; a lookup
\* resolves the block it was given to a block of the published list, awaits
\* the coalesced direct fetch for RUN_TIMEOUT_MS and, when that fails or
\* times out, awaits a run of the fallback tracker for FALLBACK_TIMEOUT_MS.
\* It shares pendingByBlock, queue, activeWorkers, drainQueue and enqueue
\* with the cached variant.

\* durations scaled to clock ticks, keeping RUN_TIMEOUT_MS < FALLBACK_TIMEOUT_MS
RUN_TIMEOUT_MS == 1
FALLBACK_TIMEOUT_MS == 2

Digits == {"0", "1", "2", "3", "4", "5", "6", "7", "8", "9"}
DigitValue ==
    [c \in Digits |-> CASE c = "0" -> 0 [] c = "1" -> 1 [] c = "2" -> 2 [] c = "3" -> 3
                        [] c = "4" -> 4 [] c = "5" -> 5 [] c = "6" -> 6 [] c = "7" -> 7
                        [] c = "8" -> 8 [] c = "9" -> 9]

\* the texts a client sends, and the block ids the published list may hold
RawBlocks == {"44-07", "44-7", "44-X"}
ListedBlocks == {"44-07", "044-07"}
MaxListed == 2
\* the lists of at most n listed blocks, each block id once
RECURSIVE ListsOf(_)
ListsOf(n) ==
    IF n = 0 THEN {<<>>}
    ELSE LET shorter == ListsOf(n - 1)
             longest == {x \in shorter : Len(x) = n - 1}
         IN shorter \cup UNION {{Append(l, b) : b \in ListedBlocks \ {l[i] : i \in 1..Len(l)}} :
                                   l \in longest}
AvailableLists == ListsOf(MaxListed)
NoBlock == "none"
NoKey == <<>>

\* the characters of a text
Chars ==
    [t \in RawBlocks \cup ListedBlocks |->
        CASE t = "44-07" -> <<"4", "4", "-", "0", "7">>
          [] t = "44-7" -> <<"4", "4", "-", "7">>
          [] t = "044-07" -> <<"0", "4", "4", "-", "0", "7">>
          [] t = "44-X" -> <<"4", "4", "-", "X">>]

\* String.prototype.split('-')
RECURSIVE split(_)
split(text) ==
    LET dashes == {i \in 1..Len(text) : text[i] = "-"} IN
    IF dashes = {} THEN <<text>>
    ELSE LET i == CHOOSE d \in dashes : \A e \in dashes : d <= e
         IN <<SubSeq(text, 1, i - 1)>> \o split(SubSeq(text, i + 1, Len(text)))

\* /^\d+$/
isDigits(part) == Len(part) > 0 /\ \A i \in 1..Len(part) : part[i] \in Digits

\* Number(part) of a digit string
RECURSIVE Number(_)
Number(part) ==
    IF part = <<>> THEN 0
    ELSE Number(SubSeq(part, 1, Len(part) - 1)) * 10 + DigitValue[part[Len(part)]]

\* /^[0-9]{1,3}-[0-9]{1,3}$/
isLikelyBlock(block) ==
    LET parts == split(Chars[block]) IN
    /\ Len(parts) = 2
    /\ \A i \in 1..2 : isDigits(parts[i]) /\ Len(parts[i]) <= 3

\* `${Number(a)}-${Number(b)}`: the pair of the two numbers, NoKey for null
blockNumericKey(block) ==
    LET parts == split(Chars[block])
        a == IF Len(parts) >= 1 THEN parts[1] ELSE <<>>
        b == IF Len(parts) >= 2 THEN parts[2] ELSE <<>>
    IN IF ~ isDigits(a) \/ ~ isDigits(b) THEN NoKey ELSE <<Number(a), Number(b)>>

\* variant: the key map keeps the last block of a key (no has() test)
resolveCanonicalBlockLastWins(list, inputBlock) ==
    LET exact == {i \in 1..Len(list) : list[i] = inputBlock}
        inputKey == blockNumericKey(inputBlock)
        same == {i \in 1..Len(list) : /\ blockNumericKey(list[i]) # NoKey
                                           /\ blockNumericKey(list[i]) = inputKey}
    IN IF exact # {} THEN inputBlock
       ELSE IF inputKey = NoKey \/ same = {} THEN NoBlock
       ELSE list[CHOOSE i \in same : \A k \in same : k <= i]

\* resolveCanonicalBlock(inputBlock), given the list fetchAvailableBlocks returned
resolveCanonicalBlock(list, inputBlock) ==
    LET exact == {i \in 1..Len(list) : list[i] = inputBlock}
        inputKey == blockNumericKey(inputBlock)
        same == {i \in 1..Len(list) : /\ blockNumericKey(list[i]) # NoKey
                                           /\ blockNumericKey(list[i]) = inputKey}
    IN IF exact # {} THEN inputBlock
       ELSE IF inputKey = NoKey \/ same = {} THEN NoBlock
       ELSE list[CHOOSE i \in same : \A k \in same : i <= k]

\* resolveCanonicalBlock and isLikelyBlock over the texts and lists of the model
Canonical ==
    [raw \in RawBlocks, list \in AvailableLists |-> resolveCanonicalBlock(list, raw)]
LikelyBlocks == {raw \in RawBlocks : isLikelyBlock(raw)}

\* failures of a direct fetch or of a fallback run, by err.code
LiveErrors == {"400", "404", "failed"}

\* what a step of the live variant did: the text sent, the block resolved,
\* the answer, the fallback runs the step started and the number of lookups
\* it answered
LiveEvent(op, raw, block, status, code) ==
    [op |-> op, raw |-> raw, block |-> block,
     status |-> status, code |-> code, payload |-> "none", id |-> 0,
     submitted |-> FALSE, started |-> 0, served |-> 0]

unused == <<config, cache, answeredPending, noted, refreshed>>

InitLive ==
    /\ CACHE_TTL_MS = DefaultCacheTtl
    /\ STALE_TTL_MS = DefaultStaleTtl
    /\ MAX_SYNC_WAIT_MS = DefaultMaxSyncWait
    /\ TRACK_CONCURRENCY \in 1..DefaultConcurrency
    /\ requested = {}
    /\ available \in AvailableLists
    /\ cache = [b \in Blocks |-> NoEntry]
    /\ pendingByBlock = [b \in ListedBlocks |-> NoHandle]
    /\ queue = <<>>
    /\ activeWorkers = 0
    /\ running = {}
    /\ waiters = {}
    /\ now = 0
    /\ last = LiveEvent("init", NoBlock, NoBlock, "none", "none")
    /\ answeredPending = {}
    /\ noted = [b \in Blocks |-> NoNote]
    /\ refreshed = {}
    /\ fallbacks = 0

\* n more lookups of block await, in the given phase, until the deadline
Await(ws, block, promise, deadline, phase, n) ==
    LET same == {w \in ws : /\ w.block = block /\ w.promise = promise
                            /\ w.deadline = deadline /\ w.phase = phase}
    IN IF n = 0 THEN ws
       ELSE (ws \ same) \cup {[block |-> block, promise |-> promise, deadline |-> deadline,
                               phase |-> phase, callers |-> Suspended(same) + n]}

\* fetchLiveResult(block): as ensureRefresh, without the store
fetchLiveResult(pend, s, block, id) ==
    IF pend[block] # NoHandle
    THEN [promise |-> pend[block], pending |-> pend, sched |-> s, submitted |-> FALSE]
    ELSE [promise |-> id,
          pending |-> [pend EXCEPT ![block] = id],
          sched |-> enqueue(s, [block |-> block, id |-> id]),
          submitted |-> TRUE]

\* handleLookup(req, res), from the arrival of the block list on: the text is
\* validated and resolved, and the lookup suspends in withTimeout on the
\* direct fetch.  listed is whether fetchAvailableBlocks succeeded; when it
\* did, it returned the list available.  A lookup that suspends is followed
\* only when its first deadline lies within the clock's range.
handleLookup(raw, listed) ==
    LET block == Canonical[raw, available]
        er == fetchLiveResult(pendingByBlock, Sched, block, nextId)
    IN
    /\ UNCHANGED <<unused, now, fallbacks>>
    /\ IF raw \notin LikelyBlocks
       THEN /\ last' = LiveEvent("lookup", raw, NoBlock, "error", "400")
            /\ UNCHANGED <<pendingByBlock, queue, activeWorkers, running, waiters>>
       ELSE IF ~ listed
       THEN /\ last' = LiveEvent("lookup", raw, NoBlock, "error", "failed")
            /\ UNCHANGED <<pendingByBlock, queue, activeWorkers, running, waiters>>
       ELSE IF block = NoBlock
       THEN /\ last' = LiveEvent("lookup", raw, NoBlock, "error", "404")
            /\ UNCHANGED <<pendingByBlock, queue, activeWorkers, running, waiters>>
       ELSE /\ er.submitted => nextId <= MaxJobs
            /\ Suspended(waiters) < MaxWaiters
            /\ now + RUN_TIMEOUT_MS <= MaxTime
            /\ pendingByBlock' = er.pending
            /\ queue' = er.sched.queue
            /\ activeWorkers' = er.sched.activeWorkers
            /\ running' = er.sched.running
            /\ waiters' = Await(waiters, block, er.promise, now + RUN_TIMEOUT_MS, "direct", 1)
            /\ last' = [LiveEvent("lookup", raw, block, "waiting", "none")
                           EXCEPT !.id = er.promise, !.submitted = er.submitted]

LiveLookup == \E raw \in RawBlocks, listed \in BOOLEAN : handleLookup(raw, listed)

\* variant: the catch block does not rethrow a failure of code 400
DirectSettlesFallsBackOn400(job, ok, payload, code) ==
    LET s == jobFinally(Sched, job)
        resumed == {w \in waiters : w.phase = "direct" /\ w.promise = job.id}
        n == Suspended(resumed)
        toFallback == ~ ok
    IN
    /\ toFallback => fallbacks + n <= MaxJobs
    /\ queue' = s.queue
    /\ activeWorkers' = s.activeWorkers
    /\ running' = s.running
    /\ pendingByBlock' = [pendingByBlock EXCEPT ![job.block] = NoHandle]
    /\ fallbacks' = IF toFallback THEN fallbacks + n ELSE fallbacks
    /\ waiters' = IF toFallback
                  THEN Await(waiters \ resumed, job.block, 0, now + FALLBACK_TIMEOUT_MS,
                             "fallback", n)
                  ELSE waiters \ resumed
    /\ last' = [LiveEvent("direct", NoBlock, job.block,
                          IF ok THEN "ready" ELSE IF toFallback THEN "waiting" ELSE "error",
                          code)
                   EXCEPT !.id = job.id, !.payload = payload, !.served = n,
                          !.started = IF toFallback THEN n ELSE 0]
    /\ UNCHANGED <<unused, now>>

\* A direct fetch settles: activeWorkers -= 1 and drainQueue(), the handle
\* is deleted, and the lookups still awaiting it resume: with the payload,
\* with the failure when its code is 400, and otherwise each by starting a
\* run of trackBlock of its own and awaiting that.
DirectSettles(job, ok, payload, code) ==
    LET s == jobFinally(Sched, job)
        resumed == {w \in waiters : w.phase = "direct" /\ w.promise = job.id}
        n == Suspended(resumed)
        toFallback == ~ ok /\ code # "400"
    IN
    /\ toFallback => fallbacks + n <= MaxJobs
    /\ queue' = s.queue
    /\ activeWorkers' = s.activeWorkers
    /\ running' = s.running
    /\ pendingByBlock' = [pendingByBlock EXCEPT ![job.block] = NoHandle]
    /\ fallbacks' = IF toFallback THEN fallbacks + n ELSE fallbacks
    /\ waiters' = IF toFallback
                  THEN Await(waiters \ resumed, job.block, 0, now + FALLBACK_TIMEOUT_MS,
                             "fallback", n)
                  ELSE waiters \ resumed
    /\ last' = [LiveEvent("direct", NoBlock, job.block,
                          IF ok THEN "ready" ELSE IF toFallback THEN "waiting" ELSE "error",
                          code)
                   EXCEPT !.id = job.id, !.payload = payload, !.served = n,
                          !.started = IF toFallback THEN n ELSE 0]
    /\ UNCHANGED <<unused, now>>

DirectSucceeds == \E job \in running, p \in Payloads : DirectSettles(job, TRUE, p, "none")

DirectFails == \E job \in running, c \in LiveErrors : DirectSettles(job, FALSE, "none", c)

\* withTimeout rejects a lookup's wait for the direct fetch with code 504:
\* the lookup starts its fallback run; the direct fetch goes on.
DirectTimeout ==
    \E w \in waiters :
        /\ w.phase = "direct"
        /\ now >= w.deadline
        /\ fallbacks < MaxJobs
        /\ fallbacks' = fallbacks + 1
        /\ waiters' = Await(Resume(waiters, w), w.block, 0, now + FALLBACK_TIMEOUT_MS,
                            "fallback", 1)
        /\ last' = [LiveEvent("directTimeout", NoBlock, w.block, "waiting", "504")
                       EXCEPT !.id = w.promise, !.served = 1, !.started = 1]
        /\ UNCHANGED <<unused, pendingByBlock, queue, activeWorkers, running, now>>

\* the run of trackBlock that a lookup awaits settles
FallbackSettles(w, ok, payload, code) ==
    /\ w.phase = "fallback"
    /\ fallbacks' = fallbacks - 1
    /\ waiters' = Resume(waiters, w)
    /\ last' = [LiveEvent("fallback", NoBlock, w.block,
                          IF ok THEN "ready" ELSE "error", code)
                   EXCEPT !.payload = payload, !.served = 1]
    /\ UNCHANGED <<unused, pendingByBlock, queue, activeWorkers, running, now>>

FallbackSucceeds == \E w \in waiters, p \in Payloads : FallbackSettles(w, TRUE, p, "none")

FallbackFails == \E w \in waiters, c \in LiveErrors : FallbackSettles(w, FALSE, "none", c)

\* withTimeout rejects a lookup's wait for its fallback run with code 504:
\* the lookup is answered; the run goes on.
FallbackTimeout ==
    \E w \in waiters :
        /\ w.phase = "fallback"
        /\ now >= w.deadline
        /\ waiters' = Resume(waiters, w)
        /\ last' = [LiveEvent("fallbackTimeout", NoBlock, w.block, "error", "504")
                       EXCEPT !.served = 1]
        /\ UNCHANGED <<unused, pendingByBlock, queue, activeWorkers, running, now, fallbacks>>

\* a run of trackBlock that no lookup awaits any more completes
AbandonedRunEnds ==
    /\ fallbacks > Suspended({w \in waiters : w.phase = "fallback"})
    /\ fallbacks' = fallbacks - 1
    /\ last' = LiveEvent("abandoned", NoBlock, NoBlock, "none", "none")
    /\ UNCHANGED <<unused, pendingByBlock, queue, activeWorkers, running, waiters, now>>

NextLive ==
    \/ LiveLookup \/ DirectSucceeds \/ DirectFails \/ DirectTimeout
    \/ FallbackSucceeds \/ FallbackFails \/ FallbackTimeout \/ AbandonedRunEnds \/ Tick

SpecLive == InitLive /\ [][NextLive]_vars


\* ===================================================================== C1
\* C1: for every key at most one refresh job is queued or executing, and an
\* ensureRefresh(key) made while a handle for the key is live returns the
\* existing promise and submits no job (handle map, queue, running jobs and
\* active count are left as they were).
C1_SingleFlight ==
    /\ \A b \in Blocks : Cardinality(JobsFor(b)) <= 1
    /\ [][ /\ \A b \in Blocks : Cardinality(JobsFor(b))' <= 1
           /\ ( /\ last'.op = "lookup"
                /\ last'.state # "fresh"
                /\ pendingByBlock[last'.block] # NoHandle )
              => /\ last'.id = pendingByBlock[last'.block]
                 /\ ~ last'.submitted
                 /\ UNCHANGED <<pendingByBlock, queue, activeWorkers, running>>
         ]_vars

\* a lookup joined the live handle of its key, whose single job is in flight
C1_Witness ==
    /\ last.op = "lookup"
    /\ last.state \in {"none", "stale"}
    /\ ~ last.submitted
    /\ pendingByBlock[last.block] = last.id
    /\ Cardinality(JobsFor(last.block)) = 1

\* ===================================================================== C2
\* C2: the number of jobs executing at once never exceeds TRACK_CONCURRENCY,
\* and activeWorkers, which counts them, stays in 0..TRACK_CONCURRENCY.
C2_BoundedConcurrency ==
    /\ activeWorkers >= 0
    /\ activeWorkers <= TRACK_CONCURRENCY
    /\ Cardinality(running) = activeWorkers

\* a job failed and the drain started the job that was queued behind it:
\* more jobs were submitted than the limit, and the limit is reached again
C2_Witness ==
    /\ last.op = "settle"
    /\ last.state = "failed"
    /\ running # {}
    /\ activeWorkers = TRACK_CONCURRENCY

\* ===================================================================== C3
\* C3: the callers suspended on a key all hold the promise of the key's live
\* handle, that promise has exactly one job, and when the job settles every
\* one of them is resumed with the one outcome of that job (the payload or
\* the failure), after which no job of that refresh remains.
C3_Coalescing ==
    /\ waiters = {}
    /\ [][ /\ \A w \in waiters' :
                /\ pendingByBlock'[w.block] = w.promise
                /\ {j \in Jobs' : j.block = w.block} = {[block |-> w.block, id |-> w.promise]}
           /\ last'.op = "settle" =>
             /\ last'.served = Suspended({w \in waiters : w.block = last'.block})
             /\ \A w \in waiters' : w.block # last'.block
             /\ last'.resp.status = (IF last'.state = "ok" THEN "ready" ELSE "error")
             /\ JobsFor(last'.block) = {[block |-> last'.block, id |-> last'.id]}
             /\ {j \in Jobs' : j.block = last'.block} = {}
         ]_vars

\* one settlement resumed two suspended callers
C3_Witness ==
    /\ last.op = "settle"
    /\ last.served >= 2

\* ===================================================================== C4
\* C4: when the deadline timer of a suspended lookup fires, the lookup is
\* answered pending with retryAfterMs and the refresh is untouched: its job
\* is still queued or running and its handle still registered.  A handle is
\* removed, and a job leaves the queue-or-running set, only when that job
\* settles.
C4_DeadlineKeepsRefresh ==
    [][ /\ last'.op = "timer" =>
             /\ \E w \in waiters : w.promise = last'.id /\ now >= w.deadline
             /\ last'.resp.status = "pending"
             /\ last'.resp.retryAfterMs = RetryAfterMs
             /\ UNCHANGED <<pendingByBlock, queue, activeWorkers, running, cache>>
             /\ last'.id # NoHandle
             /\ pendingByBlock'[last'.block] = last'.id
             /\ [block |-> last'.block, id |-> last'.id] \in Jobs'
        /\ \A b \in Blocks :
             (pendingByBlock[b] # NoHandle /\ pendingByBlock'[b] # pendingByBlock[b])
                => (last'.op = "settle" /\ last'.block = b /\ last'.id = pendingByBlock[b])
        /\ \A j \in Jobs : j \notin Jobs' => (last'.op = "settle" /\ last'.id = j.id)
      ]_vars

\* a lookup was answered pending while its job is running under a live handle
C4_Witness ==
    /\ last.op = "timer"
    /\ last.resp.status = "pending"
    /\ pendingByBlock[last.block] = last.id
    /\ [block |-> last.block, id |-> last.id] \in running

\* ===================================================================== C5
EntryOf(payload, t) ==
    [payload |-> payload, updatedAt |-> t,
     freshUntil |-> t + CACHE_TTL_MS, staleUntil |-> t + STALE_TTL_MS]

IsRead == last'.op \in {"lookup", "poll"}

\* C5 as stated: when the refresh of a lookup that was answered pending
\* succeeds, the entry of the key holds its payload, and every poll or
\* lookup of the key made before that entry's staleUntil is answered ready
\* with that payload.
C5_AsStated ==
    [][ /\ (last'.op = "settle" /\ last'.state = "ok" /\ last'.afterPending)
              => cache'[last'.block] = EntryOf(last'.resp.payload, now)
        /\ (IsRead /\ noted[last'.block].why = "warmed")
              => /\ last'.resp.status = "ready"
                 /\ last'.resp.payload = noted[last'.block].entry.payload
      ]_vars

\* C5, amended: ... is answered ready with that payload, or with the payload
\* of a later refresh of the key that has succeeded in between; until its
\* staleUntil the entry is replaced by nothing but such a refresh.
C5_WarmedThenServed ==
    [][ /\ (last'.op = "settle" /\ last'.state = "ok" /\ last'.afterPending)
              => cache'[last'.block] = EntryOf(last'.resp.payload, now)
        /\ (IsRead /\ noted[last'.block].why = "warmed")
              => /\ last'.resp.status = "ready"
                 /\ last'.resp.payload = cache[last'.block].payload
                 /\ \/ cache[last'.block] = noted[last'.block].entry
                    \/ cache[last'.block].updatedAt >= noted[last'.block].entry.updatedAt
        /\ \A b \in Blocks :
             (noted[b].why = "warmed" /\ cache'[b] # cache[b])
                => /\ last'.op = "settle" /\ last'.state = "ok" /\ last'.block = b
                   /\ cache'[b] = EntryOf(last'.resp.payload, now)
      ]_vars

\* a poll is answered ready with the payload of a refresh that had answered
\* pending before it succeeded
C5_Witness ==
    /\ last.op = "poll"
    /\ noted[last.block].why = "warmed"
    /\ last.resp.status = "ready"
    /\ last.resp.payload = noted[last.block].entry.payload
    /\ cache[last.block] = noted[last.block].entry

\* ===================================================================== C6
\* C6: a lookup that finds a stale entry is answered ready with the cached
\* payload, cached and stale both true, without suspending; it submits a
\* refresh job exactly when the key has no live handle, so that one job of
\* the key is queued or running afterwards however many stale lookups came.
C6_StaleServesAtOnce ==
    [][ (last'.op = "lookup" /\ last'.state = "stale") =>
          LET b == last'.block IN
          /\ cache[b] # NoEntry
          /\ cache[b].freshUntil <= now /\ now < cache[b].staleUntil
          /\ last'.resp.status = "ready"
          /\ last'.resp.payload = cache[b].payload
          /\ last'.resp.cached /\ last'.resp.stale
          /\ waiters' = waiters
          /\ cache' = cache
          /\ last'.submitted <=> (pendingByBlock[b] = NoHandle)
          /\ pendingByBlock'[b] # NoHandle
          /\ {j \in Jobs' : j.block = b} = {[block |-> b, id |-> pendingByBlock'[b]]}
          /\ pendingByBlock[b] # NoHandle => Jobs' = Jobs
      ]_vars

\* a second stale lookup of a key joined the refresh the first one submitted
C6_Witness ==
    /\ last.op = "lookup"
    /\ last.state = "stale"
    /\ last.resp.status = "ready"
    /\ ~ last.submitted
    /\ JobsFor(last.block) = {[block |-> last.block, id |-> last.id]}

\* ===================================================================== C7
\* C7: a lookup of a key whose entry is fresh is answered ready with the
\* cached payload, cached true and stale false, and changes neither the job
\* queue, the active count, the handle map nor the entry store.
C7_FreshIsReadOnly ==
    [][ /\ (last'.op = "lookup" /\ last'.state = "fresh") =>
             /\ last'.resp.status = "ready"
             /\ last'.resp.payload = cache[last'.block].payload
             /\ last'.resp.cached /\ ~ last'.resp.stale
             /\ ~ last'.submitted
             /\ UNCHANGED <<queue, activeWorkers, running, pendingByBlock, cache,
                            waiters>>
        /\ (last'.op = "lookup" /\ cache[last'.block] # NoEntry
                                /\ now < cache[last'.block].freshUntil)
             => last'.state = "fresh"
      ]_vars

\* a fresh hit while the refresh of another key is in flight
C7_Witness ==
    /\ last.op = "lookup"
    /\ last.state = "fresh"
    /\ last.resp.status = "ready"
    /\ running # {}

\* ===================================================================== C8
Classified(b) ==
    LET e == cache[b]
        cs == getCacheState(cache, b, now)
    IN
    /\ cs.state = "fresh" <=> (e # NoEntry /\ now < e.freshUntil)
    /\ cs.state = "stale" <=> (e # NoEntry /\ e.freshUntil <= now /\ now < e.staleUntil)
    /\ cs.state = "none" <=> (e = NoEntry \/ (e.freshUntil <= now /\ e.staleUntil <= now))
    /\ cs.cache = IF cs.state = "none" THEN [cache EXCEPT ![b] = NoEntry] ELSE cache
    /\ (0 < CACHE_TTL_MS /\ CACHE_TTL_MS < STALE_TTL_MS /\ e # NoEntry) =>
          /\ now - e.updatedAt < CACHE_TTL_MS => cs.state = "fresh"
          /\ (CACHE_TTL_MS <= now - e.updatedAt /\ now - e.updatedAt < STALE_TTL_MS)
                => cs.state = "stale"
          /\ STALE_TTL_MS <= now - e.updatedAt
                => (cs.state = "none" /\ cs.cache[b] = NoEntry)

\* C8: getCacheState answers fresh exactly when the entry exists and
\* now < freshUntil, stale exactly when it exists and
\* freshUntil <= now < staleUntil, none otherwise; with
\* 0 < CACHE_TTL_MS < STALE_TTL_MS an entry is fresh when stored, stale from
\* CACHE_TTL_MS after, none from STALE_TTL_MS after, and a none answer
\* removes the entry.  Lookups and polls classify so, and a stored entry is
\* fresh in the state that follows the store.
C8_Classification ==
    /\ \A b \in Blocks : Classified(b)
    /\ [][ /\ \A b \in Blocks : Classified(b)'
           /\ IsRead =>
                /\ last'.state = getCacheState(cache, last'.block, now).state
                /\ cache' = getCacheState(cache, last'.block, now).cache
                /\ last'.evicted <=> (cache[last'.block] # NoEntry
                                        /\ cache'[last'.block] = NoEntry)
           /\ (last'.op = "settle" /\ last'.state = "ok")
                => getCacheState(cache', last'.block, now').state = "fresh"
         ]_vars

\* a classification found an entry past its staleUntil and removed it
C8_Witness ==
    /\ last.op \in {"lookup", "poll"}
    /\ last.state = "none"
    /\ last.evicted
    /\ cache[last.block] = NoEntry

\* ===================================================================== C9
\* C9: a refresh that fails leaves the whole entry store as it was, and an
\* entry is created or overwritten only by the successful settlement of a
\* refresh of its key.
C9_FailureKeepsStore ==
    [][ /\ (last'.op = "settle" /\ last'.state = "failed") => cache' = cache
        /\ \A b \in Blocks :
             (cache'[b] # cache[b] /\ cache'[b] # NoEntry)
                => /\ last'.op = "settle" /\ last'.state = "ok" /\ last'.block = b
                   /\ cache'[b] = EntryOf(last'.resp.payload, now)
      ]_vars

\* a refresh failed while its key had an entry, and the entry is still there
C9_Witness ==
    /\ last.op = "settle"
    /\ last.state = "failed"
    /\ cache[last.block] # NoEntry
    /\ noted[last.block] = [why |-> "kept", entry |-> cache[last.block]]

\* ==================================================================== C10
StaleLookupAnswered ==
    (last'.op = "lookup" /\ last'.state = "stale") =>
        /\ last'.resp.status = "ready"
        /\ last'.resp.payload = cache[last'.block].payload
        /\ last'.resp.error = "none"
        /\ waiters' = waiters

\* C10 as stated: a lookup that finds a stale entry is answered ready with
\* its payload, never with an error; after the background refresh failed,
\* every lookup of the key made before that entry's staleUntil is answered
\* with that same payload.
C10_AsStated ==
    [][ /\ StaleLookupAnswered
        /\ (last'.op = "settle" /\ last'.state = "failed") => cache' = cache
        /\ (last'.op = "lookup" /\ noted[last'.block].why = "kept")
              => /\ last'.resp.status = "ready"
                 /\ last'.resp.payload = noted[last'.block].entry.payload
      ]_vars

\* C10, amended: ... every lookup of the key made before that entry's
\* staleUntil is answered ready, with that same payload until a later
\* refresh of the key succeeds and from then on with the payload of that
\* refresh; nothing else replaces the entry before its staleUntil.
C10_StaleSurvivesFailure ==
    [][ /\ StaleLookupAnswered
        /\ (last'.op = "settle" /\ last'.state = "failed") => cache' = cache
        /\ (last'.op = "lookup" /\ noted[last'.block].why = "kept")
              => /\ last'.resp.status = "ready"
                 /\ last'.resp.payload = cache[last'.block].payload
                 /\ \/ cache[last'.block] = noted[last'.block].entry
                    \/ cache[last'.block].updatedAt >= noted[last'.block].entry.updatedAt
        /\ \A b \in Blocks :
             (noted[b].why = "kept" /\ cache'[b] # cache[b])
                => /\ last'.op = "settle" /\ last'.state = "ok" /\ last'.block = b
                   /\ cache'[b] = EntryOf(last'.resp.payload, now)
      ]_vars

\* after its background refresh failed, the stale entry is served again
C10_Witness ==
    /\ last.op = "lookup"
    /\ last.state = "stale"
    /\ noted[last.block].why = "kept"
    /\ last.resp.status = "ready"
    /\ last.resp.payload = noted[last.block].entry.payload


\* ==================================================================== C11
\* C11: when a lookup found no entry and the refresh fails before the
\* caller's deadline timer fires, the lookup ends with that failure, neither
\* ready nor pending, and so does every other caller still suspended on the
\* same refresh; callers of other blocks stay suspended.
C11_FailurePropagates ==
    [][ (last'.op = "settle" /\ last'.state = "failed") =>
          LET b == last'.block
              waiting == {w \in waiters : w.block = b}
          IN
          /\ \A w \in waiting : w.promise = last'.id
          /\ last'.resp.status = "error"
          /\ last'.resp.error \in Errors
          /\ last'.resp = Failure(last'.resp.error)
          /\ last'.served = Suspended(waiting)
          /\ waiters' = waiters \ waiting
      ]_vars

\* two suspended lookups of one block were failed by the same refresh
C11_Witness ==
    /\ last.op = "settle"
    /\ last.state = "failed"
    /\ last.resp = Failure("code2")
    /\ last.served = 2

\* ==================================================================== C12
\* C12: a refresh that settles, with success or failure, before or after a
\* caller's deadline, leaves its block without handle and without job; a
\* failure on an absent block leaves it without entry as well; and a block
\* without entry and handle stays so until the next lookup of it, which
\* submits a new job and registers the new promise.
C12_HandleRemoved ==
    [][ /\ last'.op = "settle" =>
             /\ pendingByBlock'[last'.block] = NoHandle
             /\ {j \in Jobs' : j.block = last'.block} = {}
             /\ (last'.state = "failed" /\ cache[last'.block] = NoEntry)
                   => cache'[last'.block] = NoEntry
        /\ \A b \in Blocks :
             (cache[b] = NoEntry /\ pendingByBlock[b] = NoHandle) =>
                IF last'.op = "lookup" /\ last'.block = b
                THEN /\ last'.submitted
                     /\ last'.id # NoHandle
                     /\ pendingByBlock'[b] = last'.id
                     /\ [block |-> b, id |-> last'.id] \in Jobs' \ Jobs
                ELSE cache'[b] = NoEntry /\ pendingByBlock'[b] = NoHandle
      ]_vars

\* a refresh of an absent block failed after its caller was answered pending
C12_Witness ==
    /\ last.op = "settle"
    /\ last.state = "failed"
    /\ last.afterPending
    /\ cache[last.block] = NoEntry
    /\ pendingByBlock[last.block] = NoHandle

\* ==================================================================== C13
\* the jobs not yet started, in the order of their submission, once the job
\* a step submits is appended
Unstarted == queue \o (IF Jobs' \ Jobs = {} THEN <<>> ELSE <<CHOOSE j \in Jobs' \ Jobs : TRUE>>)

\* C13: jobs start in the order of their submission.  A step submits at most
\* one job; the jobs it starts are the first of the unstarted jobs in
\* submission order, and the rest stay queued in that order: a job never
\* starts while a job submitted before it is still waiting, whatever job
\* completed.
C13_Fifo ==
    [][ /\ Cardinality(Jobs' \ Jobs) <= 1
        /\ \E k \in 0..Len(Unstarted) :
              /\ running' \ running = {Unstarted[i] : i \in 1..k}
              /\ queue' = SubSeq(Unstarted, k + 1, Len(Unstarted))
      ]_vars

\* a completion started the job submitted first and left a later one queued
C13_Witness ==
    /\ last.op = "settle"
    /\ Len(queue) >= 1
    /\ \E j \in running : j.block # last.block
    /\ activeWorkers = TRACK_CONCURRENCY

\* ==================================================================== C14
\* C14: a poll submits no job and creates or removes no handle; it answers
\* ready, with the stale flag and ageMs, when the entry is fresh or stale,
\* and otherwise not-found with the pending hint true exactly when the block
\* has a live handle; the only state it changes is the expired entry of its
\* block, which it evicts.
C14_PollReadsOnly ==
    [][ last'.op = "poll" =>
          LET b == last'.block
              e == cache[b]
          IN
          /\ UNCHANGED <<pendingByBlock, queue, activeWorkers, running, waiters>>
          /\ ~ last'.submitted
          /\ \A x \in Blocks \ {b} : cache'[x] = cache[x]
          /\ IF e # NoEntry /\ now < e.staleUntil
             THEN /\ cache'[b] = e
                  /\ last'.resp.status = "ready"
                  /\ last'.resp.payload = e.payload
                  /\ last'.resp.stale <=> (e.freshUntil <= now)
                  /\ last'.resp.ageMs \in (now - e.updatedAt)..(now' - e.updatedAt)
             ELSE /\ cache'[b] = NoEntry
                  /\ last'.resp = NotFound(pendingByBlock[b] # NoHandle)
      ]_vars

\* a poll evicted an expired entry and reported the live refresh of its block
C14_Witness ==
    /\ last.op = "poll"
    /\ last.evicted
    /\ last.resp = NotFound(TRUE)
    /\ pendingByBlock[last.block] # NoHandle

\* ==================================================================== C15
\* C15: health reports the queue length, the number of active jobs, the
\* number of live handles and the size of the entry store, and changes none
\* of them: it starts no job and evicts no expired entry.
C15_HealthSnapshot ==
    [][ last'.op = "health" =>
          /\ last'.health.queueDepth = Len(queue)
          /\ last'.health.activeWorkers = activeWorkers
          /\ last'.health.pendingBlocks =
                Cardinality({b \in Blocks : pendingByBlock[b] # NoHandle})
          /\ last'.health.cacheSize = Cardinality({b \in Blocks : cache[b] # NoEntry})
          /\ UNCHANGED <<queue, activeWorkers, running, pendingByBlock, cache>>
      ]_vars

\* health ran with a job queued and an expired entry still in the store
C15_Witness ==
    /\ last.op = "health"
    /\ last.health.queueDepth >= 1
    /\ last.health.cacheSize >= 1
    /\ \E b \in Blocks : cache[b] # NoEntry /\ cache[b].staleUntil <= now

\* ==================================================================== C16
\* some lookup is suspended with its deadline at t
SuspendedUntil(t) == \E w \in waiters : w.deadline = t

\* C16: every lookup returns ready, pending or a failure, even if the
\* refresh never settles.  On the fresh and stale branches it is answered
\* ready in the step of the call and suspends nothing; on the no-entry
\* branch it suspends with a deadline MAX_SYNC_WAIT_MS ahead, a settlement
\* answers it ready or with the failure, the firing of its timer answers it
\* pending, and one of the two happens.
C16_LookupReturns ==
    /\ [][ /\ (last'.op = "lookup" /\ last'.state \in {"fresh", "stale"}) =>
                 /\ last'.resp.status = "ready"
                 /\ waiters' = waiters
           /\ (last'.op = "lookup" /\ last'.state = "none") =>
                 /\ last'.resp = Waiting
                 /\ \E w \in waiters' : /\ w.block = last'.block
                                       /\ w.deadline = now + MAX_SYNC_WAIT_MS
                 /\ Suspended(waiters') = Suspended(waiters) + 1
           /\ last'.op = "timer" =>
                 /\ last'.resp = Pending
                 /\ Suspended(waiters') = Suspended(waiters) - 1
           /\ last'.op = "settle" =>
                 /\ last'.resp.status \in {"ready", "error"}
                 /\ Suspended(waiters') = Suspended(waiters) - last'.served
           /\ last'.op \notin {"lookup", "timer", "settle"} => waiters' = waiters
         ]_vars
    /\ \A t \in 0..MaxTime : SuspendedUntil(t) ~> ~ SuspendedUntil(t)

\* a lookup was answered pending by its timer while its job had not started
C16_Witness ==
    /\ last.op = "timer"
    /\ last.resp = Pending
    /\ [block |-> last.block, id |-> last.id] \in Queued
    /\ \A w \in waiters : w.block # last.block

\* ==================================================================== C17
\* what a successful background refresh does: the entry of its block is
\* replaced by the new payload with a window that starts now, the block is
\* left without handle, and the entry stays until the next lookup of the
\* block unless a poll evicts it once expired
RefreshReplaces ==
    /\ (last'.op = "settle" /\ last'.state = "ok" /\ cache[last'.block] # NoEntry) =>
          /\ cache'[last'.block] = EntryOf(last'.resp.payload, now)
          /\ cache'[last'.block].freshUntil > now
          /\ pendingByBlock'[last'.block] = NoHandle
          /\ last'.block \in refreshed'
    /\ \A b \in refreshed :
          /\ pendingByBlock[b] = NoHandle
          /\ (last'.op = "lookup" /\ last'.block = b) \/ b \in refreshed'
          /\ b \in refreshed' => cache'[b] \in {cache[b], NoEntry}

\* C17 as stated: after a stale lookup started a background refresh and the
\* refresh succeeded, the entry is replaced by the new payload with a new
\* freshness window, and the next lookup of the block, whenever it is made,
\* returns ready with the new payload, cached=true and stale=false, and
\* submits no refresh.
C17_AsStated ==
    [][ /\ RefreshReplaces
        /\ last'.afterRefresh =>
              /\ last'.resp.status = "ready"
              /\ last'.resp.payload = cache[last'.block].payload
              /\ last'.resp.cached
              /\ ~ last'.resp.stale
              /\ ~ last'.submitted
      ]_vars

\* C17: after a stale lookup started a background refresh and the refresh
\* succeeded, the entry is replaced by the new payload with a new freshness
\* window, and the next lookup of the block, when made before the new
\* freshUntil, returns ready with the new payload, cached=true and
\* stale=false, and submits no refresh.
C17_RefreshedThenFresh ==
    [][ /\ RefreshReplaces
        /\ (last'.afterRefresh /\ now < cache[last'.block].freshUntil) =>
              /\ last'.resp.status = "ready"
              /\ last'.resp.payload = cache[last'.block].payload
              /\ last'.resp.cached
              /\ ~ last'.resp.stale
              /\ ~ last'.submitted
              /\ UNCHANGED <<cache, pendingByBlock, queue, activeWorkers, running>>
      ]_vars

\* the first lookup after a successful background refresh was served fresh
C17_Witness ==
    /\ last.op = "lookup"
    /\ last.afterRefresh
    /\ last.state = "fresh"
    /\ ~ last.resp.stale
    /\ last.resp.payload = cache[last.block].payload
    /\ cache[last.block].updatedAt > 0

\* ==================================================================== C18
\* C18: in the live variant the lookups doing external work at one time,
\* the started direct fetches together with the fallback runs of trackBlock
\* in progress, are never more than TRACK_CONCURRENCY.
C18_AsStated == activeWorkers + fallbacks <= TRACK_CONCURRENCY

\* ==================================================================== C19
\* a digit string without its leading zeros
RECURSIVE StripZeros(_)
StripZeros(part) ==
    IF Len(part) > 1 /\ Head(part) = "0" THEN StripZeros(Tail(part)) ELSE part

\* the two texts are both of the form digits-digits and their parts denote
\* the same numbers
SameNumbersText(x, y) ==
    LET px == split(Chars[x])
        py == split(Chars[y])
    IN /\ Len(px) = 2 /\ Len(py) = 2
       /\ \A i \in 1..2 : /\ isDigits(px[i]) /\ isDigits(py[i])
                          /\ StripZeros(px[i]) = StripZeros(py[i])

SameNumbers ==
    [x \in RawBlocks \cup ListedBlocks, y \in RawBlocks \cup ListedBlocks |->
        SameNumbersText(x, y)]

C20_StoredBeforeObserved ==
    [][ (last'.resp.status = "ready" /\ ~ last'.resp.cached /\ last'.served >= 1) =>
          /\ last'.op = "settle"
          /\ cache'[last'.block] # NoEntry
          /\ cache'[last'.block].payload = last'.resp.payload
          /\ cache'[last'.block].updatedAt = now'
      ]_vars

\* a suspended lookup received the payload that the store holds
C20_Witness ==
    /\ last.op = "settle"
    /\ last.resp.status = "ready"
    /\ ~ last.resp.cached
    /\ last.served = 1
    /\ cache[last.block].payload = last.resp.payload

\* ==================================================================== C21
\* C21: the scheduler is work-conserving.  No job waits in the queue while
\* the active count is below TRACK_CONCURRENCY; this holds in particular
\* after every submit and every completion, and a completion that leaves a
\* free slot starts the head of the queue in the same step.
C21_WorkConserving ==
    /\ Len(queue) > 0 => activeWorkers = TRACK_CONCURRENCY
    /\ [][ /\ (last'.submitted \/ last'.op = "settle") =>
                 (Len(queue') > 0 => activeWorkers' = TRACK_CONCURRENCY)
           /\ (last'.op = "settle" /\ Len(queue) > 0) =>
                 /\ Head(queue) \in running'
                 /\ queue' = Tail(queue)
                 /\ activeWorkers' = activeWorkers
         ]_vars

\* a submitted job waits at the tail of the queue because every slot is taken
C21_Witness ==
    /\ last.op = "lookup"
    /\ last.submitted
    /\ Len(queue) > 0
    /\ queue[Len(queue)].id = last.id
    /\ activeWorkers = TRACK_CONCURRENCY

\* ==================================================================== C22
\* the job of the hanging process is started
Stalled == \E s \in running : s.block = StalledBlock

\* a job of block b waits in the queue, is started
QueuedFor(b) == \E j \in Queued : j.block = b
StartedFor(b) == \E j \in running : j.block = b

JobLifecycle ==
    /\ Cardinality(Jobs' \ Jobs) <= 1
    /\ \A j \in Jobs' \ Jobs :
          /\ last'.op = "lookup" /\ last'.submitted
          /\ j = [block |-> last'.block, id |-> last'.id]
          /\ \A k \in Jobs : k.id # j.id
    /\ \A j \in Queued : j \in Queued' \/ j \in running'
    /\ \A j \in running' \ running : j \in Queued \/ j \notin Jobs
    /\ \A j \in running :
          \/ j \in running'
          \/ /\ last'.op = "settle" /\ last'.block = j.block /\ last'.id = j.id
             /\ j \notin Jobs'
    /\ last'.op = "settle" =>
          LET j == [block |-> last'.block, id |-> last'.id] IN
          /\ j \in running
          /\ running \ running' = {j}
          /\ pendingByBlock[j.block] = j.id
          /\ last'.resp.status = (IF last'.state = "ok" THEN "ready" ELSE "error")
          /\ last'.state = "ok" => cache'[j.block].payload = last'.resp.payload
          /\ last'.served = Suspended({w \in waiters : w.promise = j.id})
          /\ \A w \in waiters' : w.promise # j.id
          /\ pendingByBlock'[j.block] = NoHandle

\* C23: every submitted job is dequeued and started exactly once: it is never
\* dropped from the queue, never both queued and running, never started again
\* after it settled; the promise of the job settles with the job's own
\* outcome, fulfilled on success and rejected on failure; and, when every
\* started job eventually settles, every queued job is eventually started
\* and every handle eventually removed.
C23_JobRunsOnce ==
    /\ [][ /\ JobLifecycle
           /\ Queued' \cap running' = {}
           /\ Cardinality(Queued') = Len(queue')
           /\ Cardinality(running') = activeWorkers'
         ]_vars
    /\ \A b \in Blocks : QueuedFor(b) ~> StartedFor(b)
    /\ \A b \in Blocks : (pendingByBlock[b] # NoHandle) ~> (pendingByBlock[b] = NoHandle)

\* the job that waited in the queue was started by the completion of the job
\* before it, whose promise was fulfilled to a suspended lookup
C23_Witness ==
    /\ TRACK_CONCURRENCY = 1
    /\ last.op = "settle"
    /\ last.state = "ok"
    /\ last.served >= 1
    /\ queue = <<>>
    /\ \E j \in running : j.block # last.block

\* ==================================================================== C24
\* C24: every entry in the store has freshUntil <= staleUntil, whatever
\* CACHE_TTL_MS and STALE_TTL_MS are set to.
C24_AsStated ==
    \A b \in Blocks : cache[b] # NoEntry => cache[b].freshUntil <= cache[b].staleUntil

\* ==================================================================== C25
\* the classify of block b by a lookup or a poll
ClassifyOf(b) == last'.op \in {"lookup", "poll"} /\ last'.block = b

\* the successful settlement of a refresh of block b
StoreOf(b) == last'.op = "settle" /\ last'.state = "ok" /\ last'.block = b

\* C25: eviction is lazy and never early.  An entry is removed only by a
\* classify of its own block made at or after its staleUntil; before its
\* staleUntil it changes only by the store of a successful refresh of its
\* block; past its staleUntil it stays as it is under every step (timer,
\* clock, health, lookups, polls and settlements of other blocks) until a
\* classify of its block removes it or such a store overwrites it.
C25_LazyEviction ==
    [][ \A b \in Blocks :
          LET e == cache[b] IN
          e # NoEntry =>
             /\ cache'[b] = NoEntry =>
                   /\ ClassifyOf(b)
                   /\ now >= e.staleUntil
                   /\ last'.evicted
                   /\ last'.state = "none"
             /\ cache'[b] \notin {e, NoEntry} =>
                   /\ StoreOf(b)
                   /\ cache'[b] = EntryOf(last'.resp.payload, now)
             /\ now < e.staleUntil => (cache'[b] = e \/ StoreOf(b))
             /\ now >= e.staleUntil =>
                   IF ClassifyOf(b) THEN cache'[b] = NoEntry
                   ELSE IF StoreOf(b) THEN cache'[b] = EntryOf(last'.resp.payload, now)
                   ELSE cache'[b] = e
      ]_vars

\* an entry past its staleUntil is still stored after the poll of another block
C25_Witness ==
    /\ last.op = "poll"
    /\ \E b \in Blocks \ {last.block} :
          /\ cache[b] # NoEntry
          /\ cache[b].staleUntil <= now
          /\ pendingByBlock[b] = NoHandle

\* ==================================================================== C26
\* C26: the stored payload of a block is that of the most recently completed
\* successful refresh of the block.  Refreshes of one block never overlap:
\* the refresh that settles is the only job of its block, so none that
\* started before it is still to settle; every successful settlement
\* overwrites the entry with its own payload and an updatedAt that is not
\* less than the one it replaces; and nothing else writes a payload.
C26_LatestRefreshStored ==
    [][ \A b \in Blocks :
          /\ Cardinality(JobsFor(b)) <= 1
          /\ StoreOf(b) =>
                /\ JobsFor(b) = {[block |-> b, id |-> last'.id]}
                /\ {j \in Jobs' : j.block = b} = {}
                /\ cache'[b] = EntryOf(last'.resp.payload, now)
                /\ cache'[b].payload \in Payloads
                /\ cache[b] # NoEntry => cache'[b].updatedAt >= cache[b].updatedAt
          /\ ~ StoreOf(b) => cache'[b] \in {cache[b], NoEntry}
      ]_vars

\* a successful refresh overwrote the entry of its block with a later stamp
C26_Witness ==
    /\ last.op = "settle"
    /\ last.state = "ok"
    /\ last.block \in refreshed
    /\ cache[last.block].payload = last.resp.payload
    /\ cache[last.block].updatedAt = now
    /\ now > 0

\* ==================================================================== C27
\* the refresh of block b has answered pending to a lookup and not settled
PendingAnswered(b) == pendingByBlock[b] # NoHandle /\ pendingByBlock[b] \in answeredPending

\* C27: when a lookup is answered pending, the handle of its block is live
\* and holds the promise the lookup awaited, whose job is queued or running;
\* until that refresh settles the block keeps the handle and has no entry,
\* and every poll of the block is answered not-found with the pending hint
\* true.
C27_PendingHasHandle ==
    /\ \A id \in answeredPending : \E b \in Blocks : pendingByBlock[b] = id
    /\ [][ /\ \A id \in answeredPending' : \E b \in Blocks : pendingByBlock'[b] = id
           /\ last'.resp.status = "pending" =>
                 /\ last'.op = "timer"
                 /\ last'.id # NoHandle
                 /\ pendingByBlock'[last'.block] = last'.id
                 /\ [block |-> last'.block, id |-> last'.id] \in Jobs'
                 /\ last'.id \in answeredPending'
           /\ \A b \in Blocks :
                 PendingAnswered(b) =>
                    /\ cache[b] = NoEntry
                    /\ [block |-> b, id |-> pendingByBlock[b]] \in Jobs
                    /\ (last'.op = "poll" /\ last'.block = b) => last'.resp = NotFound(TRUE)
                    /\ PendingAnswered(b)' \/ (last'.op = "settle" /\ last'.block = b
                                                /\ last'.id = pendingByBlock[b])
         ]_vars

\* a poll made after the pending answer, while the job still waits in the
\* queue, reports the refresh as pending
C27_Witness ==
    /\ last.op = "poll"
    /\ last.resp = NotFound(TRUE)
    /\ PendingAnswered(last.block)
    /\ [block |-> last.block, id |-> pendingByBlock[last.block]] \in Queued

\* ==================================================================== C28
\* the blocks with a live handle
Handles == {b \in DOMAIN pendingByBlock : pendingByBlock[b] # NoHandle}

\* each handle has exactly one job, queued or running, and each job a handle
HandlesMatchJobs ==
    /\ Cardinality(Handles) = Len(queue) + activeWorkers
    /\ \A b \in Handles : JobsFor(b) = {[block |-> b, id |-> pendingByBlock[b]]}
    /\ \A j \in Jobs : pendingByBlock[j.block] = j.id
    /\ Cardinality(Jobs) = Len(queue) + activeWorkers

\* C28: between any two steps of the server the number of live handles is
\* the queue length plus the active count: each handle has exactly one job,
\* queued or running, and every queued or running job has the handle of its
\* block; health reports the three numbers accordingly.
C28_HandlesAreJobs ==
    /\ HandlesMatchJobs
    /\ last.op = "health" =>
          last.health.pendingBlocks = last.health.queueDepth + last.health.activeWorkers

\* health observed two handles, one for the running job and one for the
\* queued job
C28_Witness ==
    /\ last.op = "health"
    /\ last.health.pendingBlocks = 2
    /\ last.health.queueDepth = 1
    /\ last.health.activeWorkers = 1

\* ==================================================================== C29
\* C29: the handle removed when a refresh settles is that refresh's own.  At
\* the settlement the handle of the block holds the promise of the settling
\* job and only that handle is removed; a new handle is registered only for
\* a block that has none, and a live handle is never replaced, so no
\* settlement finds, or deletes, the handle of a newer refresh.
C29_OwnHandleRemoved ==
    [][ /\ last'.op = "settle" =>
              /\ last'.id # NoHandle
              /\ pendingByBlock[last'.block] = last'.id
              /\ [block |-> last'.block, id |-> last'.id] \in running
              /\ pendingByBlock' = [pendingByBlock EXCEPT ![last'.block] = NoHandle]
        /\ \A b \in Blocks :
              /\ (pendingByBlock[b] # NoHandle /\ pendingByBlock'[b] # pendingByBlock[b]) =>
                    /\ last'.op = "settle" /\ last'.block = b
                    /\ pendingByBlock'[b] = NoHandle
              /\ (pendingByBlock[b] = NoHandle /\ pendingByBlock'[b] # NoHandle) =>
                    /\ last'.op = "lookup" /\ last'.block = b /\ last'.submitted
                    /\ pendingByBlock'[b] = last'.id
                    /\ \A x \in Blocks : pendingByBlock[x] # last'.id
      ]_vars

\* a later refresh of a block that has an entry failed and its handle was
\* removed, while the handle of another block stayed
C29_Witness ==
    /\ last.op = "settle"
    /\ last.state = "failed"
    /\ cache[last.block] # NoEntry
    /\ pendingByBlock[last.block] = NoHandle
    /\ \E b \in Blocks \ {last.block} : pendingByBlock[b] # NoHandle

\* ==================================================================== C30
\* C30: a ready answer served from the cache has ageMs >= 0, with
\* ageMs < CACHE_TTL_MS when stale is false and
\* CACHE_TTL_MS <= ageMs < STALE_TTL_MS when stale is true; a ready answer
\* with cached false has ageMs = 0.
C30_AsStated ==
    [][ last'.resp.status = "ready" =>
          IF last'.resp.cached
          THEN /\ last'.resp.ageMs >= 0
               /\ ~ last'.resp.stale => last'.resp.ageMs < CACHE_TTL_MS
               /\ last'.resp.stale => /\ CACHE_TTL_MS <= last'.resp.ageMs
                                      /\ last'.resp.ageMs < STALE_TTL_MS
          ELSE last'.resp.ageMs = 0
      ]_vars

\* ==================================================================== C31
\* the number of lookups suspended in the given phase
Awaiting(phase) == Suspended({w \in waiters : w.phase = phase})

\* C31: a lookup whose direct fetch fails with a code other than 400, or
\* whose wait for it exceeds RUN_TIMEOUT_MS, starts one run of the fallback
\* tracker and awaits it; a failure of code 400 is returned and starts no
\* run.  Runs are started by nothing else, a lookup never returns to the
\* direct fetch, and the failure or the timeout of the fallback is returned
\* with its code (504 for the timeout) while no job is submitted and no run
\* started: every lookup starts at most one run.
C31_FallbackOnce ==
    /\ Awaiting("fallback") <= fallbacks
    /\ [][ /\ Awaiting("fallback")' <= fallbacks'
           /\ fallbacks' > fallbacks => last'.op \in {"direct", "directTimeout"}
           /\ Awaiting("direct")' > Awaiting("direct") => last'.op = "lookup"
           /\ last'.op = "lookup" =>
                 /\ last'.started = 0
                 /\ fallbacks' = fallbacks
                 /\ Awaiting("fallback")' = Awaiting("fallback")
           /\ last'.op = "direct" =>
                 LET n == Suspended({w \in waiters : w.phase = "direct"
                                                    /\ w.promise = last'.id})
                 IN
                 /\ last'.served = n
                 /\ Awaiting("direct")' = Awaiting("direct") - n
                 /\ IF last'.code \in {"none", "400"}
                    THEN /\ last'.status = (IF last'.code = "none" THEN "ready" ELSE "error")
                         /\ last'.started = 0
                         /\ fallbacks' = fallbacks
                         /\ Awaiting("fallback")' = Awaiting("fallback")
                    ELSE /\ last'.status = "waiting"
                         /\ last'.started = n
                         /\ fallbacks' = fallbacks + n
                         /\ Awaiting("fallback")' = Awaiting("fallback") + n
           /\ last'.op = "directTimeout" =>
                 /\ \E w \in waiters : /\ w.phase = "direct" /\ w.promise = last'.id
                                       /\ w.deadline <= now
                 /\ last'.started = 1
                 /\ fallbacks' = fallbacks + 1
                 /\ Awaiting("direct")' = Awaiting("direct") - 1
                 /\ Awaiting("fallback")' = Awaiting("fallback") + 1
                 /\ UNCHANGED <<pendingByBlock, queue, activeWorkers, running>>
           /\ last'.op \in {"fallback", "fallbackTimeout"} =>
                 /\ last'.served = 1
                 /\ last'.started = 0
                 /\ fallbacks' <= fallbacks
                 /\ Awaiting("fallback")' = Awaiting("fallback") - 1
                 /\ Awaiting("direct")' = Awaiting("direct")
                 /\ UNCHANGED <<pendingByBlock, queue, activeWorkers, running>>
                 /\ last'.status \in {"ready", "error"}
                 /\ last'.status = "error" =>
                       last'.code \in (IF last'.op = "fallback" THEN LiveErrors ELSE {"504"})
                 /\ last'.op = "fallbackTimeout" => last'.status = "error"
         ]_vars

\* the fallback run of a lookup failed: the failure is the answer, and no
\* fetch and no run is in progress afterwards
C31_Witness ==
    /\ last.op = "fallback"
    /\ last.status = "error"
    /\ last.code = "failed"
    /\ waiters = {}
    /\ fallbacks = 0
    /\ running = {}
    /\ queue = <<>>
====
